---- MODULE Spec2Model ----
(***************************************************************************)
(* Model of src/src/extract-only.ts: the VPKExtractor run                  *)
(* (extractPNGs -> loadVPK -> dumpFiles -> renameFiles), the external      *)
(* decompiler invocations it fans out, and the output directory tree the   *)
(* rename pass walks.                                                      *)
(*                                                                         *)
(* A path is a tuple of components (<<"data", "panorama", "a.png">>), so   *)
(* join appends a component and dirname drops the last one on every        *)
(* platform; file names are strings and the string operations of the       *)
(* rename pass (endsWith, basename) are computed character by character.   *)
(***************************************************************************)
EXTENDS Integers, Sequences, FiniteSets, TLC

VARIABLES
  platform,      \* os.platform()
  config,        \* this.config: the per-category boolean flags
  fs,            \* the directory tree under config.directory: path -> entry
  pc,            \* position of the run inside extractPNGs
  log,           \* lines written by the winston logger, in order
  loaded,        \* this.vpkDir has been loaded
  vpkFiles,      \* this.vpkDir.files.length
  execCalls,     \* the paths exec() was called with, in call order
  promise,       \* state of the promise of each entry of pathsToDump
  outcome,       \* each invocation: "running", or how it ended: "ok", "failed"
  files,         \* renameFiles: the readdir snapshot
  idx,           \* renameFiles: position of the for loop in the snapshot
  renamedCount,  \* renameFiles: let renamedCount
  renameCalls    \* the rename() calls made: <<oldPath, newPath, succeeded>>

vars == <<platform, config, fs, pc, log, loaded, vpkFiles, execCalls,
          promise, outcome, files, idx, renamedCount, renameCalls>>

(***************************************************************************)
(* Bounds                                                                  *)
(***************************************************************************)
\* Category flags set to true in a configuration, besides the configuration
\* the program itself constructs.
MaxEnabled == 0
\* Entries already under the output directory when the run starts.
MaxFiles == 2
\* Entries of the loaded archive directory.
MaxEntries == 1

(***************************************************************************)
(* Configuration                                                           *)
(***************************************************************************)
\* Object.keys(neededDirectories), in insertion order
CategoryOrder ==
  << "stickers", "patches", "graffiti", "characters", "musicKits", "cases",
     "tools", "statusIcons", "weapons", "otherWeapons", "seasonIcons",
     "premierSeasons", "tournaments", "setIcons" >>

Categories == {CategoryOrder[i] : i \in 1..Len(CategoryOrder)}

ECON_PATH == "panorama/images/econ"

neededDirectories ==
  [ stickers       |-> ECON_PATH \o "/stickers",
    patches        |-> ECON_PATH \o "/patches",
    graffiti       |-> ECON_PATH \o "/stickers/default",
    characters     |-> ECON_PATH \o "/characters",
    musicKits      |-> ECON_PATH \o "/music_kits",
    cases          |-> ECON_PATH \o "/weapon_cases",
    tools          |-> ECON_PATH \o "/tools",
    statusIcons    |-> ECON_PATH \o "/status_icons",
    weapons        |-> ECON_PATH \o "/default_generated",
    otherWeapons   |-> ECON_PATH \o "/weapons",
    seasonIcons    |-> ECON_PATH \o "/season_icons",
    premierSeasons |-> ECON_PATH \o "/premier_seasons",
    tournaments    |-> ECON_PATH \o "/tournaments",
    setIcons       |-> ECON_PATH \o "/set_icons" ]

\* Object.keys(neededFiles).map((f) => neededFiles[f])
neededFiles == << "scripts/items/items_game.txt", "resource/csgo_english.txt" >>

\* The flags of DEFAULT_CONFIG overridden by the object passed to
\* new VPKExtractor({...}) at the end of the file.
ProgramConfig ==
  [c \in Categories |-> c \in {"statusIcons", "premierSeasons"}]

Directory == "data"
Source2Viewer == "Source2Viewer-CLI"
LogLevel == "info"

(***************************************************************************)
(* Sequence helpers                                                        *)
(***************************************************************************)
Range(s) == {s[i] : i \in 1..Len(s)}

MapSeq(s, f) == [i \in 1..Len(s) |-> f[s[i]]]

(***************************************************************************)
(* dumpFiles: the requested paths                                          *)
(***************************************************************************)
PathsToDumpUnfiltered(cfg) ==
  MapSeq(CategoryOrder, neededDirectories) \o neededFiles

PathsToDump(cfg) ==
  LET enabled(f) == cfg[f] = TRUE
  IN  MapSeq(SelectSeq(CategoryOrder, enabled), neededDirectories) \o neededFiles

(***************************************************************************)
(* Logger                                                                  *)
(***************************************************************************)
Levels == [error |-> 0, warn |-> 1, info |-> 2, debug |-> 5]

\* winston drops a line whose level is less severe than the logger's level.
Logged(l, rec) ==
  IF Levels[rec.level] <= Levels[LogLevel] THEN Append(l, rec) ELSE l

Line(level, msg) == [level |-> level, msg |-> msg]
LinePath(level, msg, p) == [level |-> level, msg |-> msg, path |-> p]
LineCount(level, msg, n) == [level |-> level, msg |-> msg, n |-> n]

CompletedLine == Line("info", "PNG extraction completed successfully!")

(***************************************************************************)
(* The directory tree                                                      *)
(***************************************************************************)
Root == << Directory >>

Join(parent, name) == Append(parent, name)
Dirname(p) == SubSeq(p, 1, Len(p) - 1)
Name(p) == p[Len(p)]

File(id) == [kind |-> "file", id |-> id]
Dir == [kind |-> "dir"]

ExistsSyncAlways(tree, p) == TRUE

ExistsSync(tree, p) == p \in DOMAIN tree

VpkPath == << Directory, "game", "csgo", "pak01_dir.vpk" >>

Executable(plat) ==
  IF plat = "win32" THEN << Directory, Source2Viewer \o ".exe" >>
                    ELSE << Directory, Source2Viewer >>

\* tree with entry e at path p (replacing what was there)
Put(tree, p, e) ==
  [q \in DOMAIN tree \cup {p} |-> IF q = p THEN e ELSE tree[q]]

Remove(tree, p) == [q \in DOMAIN tree \ {p} |-> tree[q]]

EmptyTree == [q \in {} |-> Dir]

(***************************************************************************)
(* File names: String.prototype.endsWith and path.basename(name, suffix)   *)
(***************************************************************************)
PngSuffix == "_png.png"

EndsWith(s, suffix) ==
  /\ Len(s) >= Len(suffix)
  /\ SubSeq(s, Len(s) - Len(suffix) + 1, Len(s)) = suffix

\* path.basename of a name without separators: the name without the suffix
\* when it ends in it, the empty string when the name is the suffix itself.
BasenameKeepSuffix(name, suffix) == name

Basename(name, suffix) ==
  IF Len(suffix) > 0 /\ Len(suffix) <= Len(name)
  THEN IF suffix = name THEN ""
       ELSE IF EndsWith(name, suffix)
            THEN SubSeq(name, 1, Len(name) - Len(suffix))
            ELSE name
  ELSE name

\* a Dirent of readdir(..., {withFileTypes: true, recursive: true})
Dirent(tree, p) ==
  [parentPath |-> Dirname(p), name |-> Name(p), kind |-> tree[p].kind]

IsFile(d) == d.kind = "file"

\* file.isFile() && file.name.endsWith("_png.png")
IsCandidate(d) == IsFile(d) /\ EndsWith(d.name, PngSuffix)

OldPath(d) == Join(d.parentPath, d.name)

NewName(d) == Basename(d.name, PngSuffix) \o ".png"

NewPath(d) == Join(Dirname(OldPath(d)), NewName(d))

(***************************************************************************)
(* readdir with recursive: true. A directory's entries come in the order   *)
(* the operating system gives them (any order), all together, and a        *)
(* subdirectory is listed after the directory that holds it: the walk      *)
(* keeps the directories still to read on a stack.                         *)
(***************************************************************************)
RECURSIVE Orders(_)
Orders(S) ==
  IF S = {} THEN { <<>> }
  ELSE UNION { { <<x>> \o t : t \in Orders(S \ {x}) } : x \in S }

RECURSIVE Walk(_, _)
Walk(tree, stack) ==
  IF stack = <<>> THEN { <<>> }
  ELSE LET d    == stack[Len(stack)]
           rest == SubSeq(stack, 1, Len(stack) - 1)
           kids == {p \in DOMAIN tree : Dirname(p) = d}
           isDir(p) == tree[p].kind = "dir"
       IN  UNION { { [i \in 1..Len(o) |-> Dirent(tree, o[i])] \o t :
                       t \in Walk(tree, rest \o SelectSeq(o, isDir)) } :
                   o \in Orders(kids) }

ReaddirResults(tree) == Walk(tree, << Root >>)

(***************************************************************************)
(* fs.promises.rename(oldPath, newPath): fails when the source is gone or  *)
(* the target is a directory, and may fail for reasons outside the program *)
(* (permissions, a file held open); when it succeeds the source entry      *)
(* takes the target's place, replacing a file already there.               *)
(***************************************************************************)
RenameMaySucceed(tree, old, new) ==
  /\ old \in DOMAIN tree
  /\ new \in DOMAIN tree => tree[new].kind = "file"

Renamed(tree, old, new) == Put(Remove(tree, old), new, tree[old])

(***************************************************************************)
(* The external decompiler. An invocation that exits without error may     *)
(* have left a decompiled texture under the output directory, named with   *)
(* the _png.png suffix.                                                    *)
(***************************************************************************)
ToolDir == << Directory, "panorama" >>
ToolFile == Join(ToolDir, "a" \o PngSuffix)

Extracted(tree) == Put(Put(tree, ToolDir, Dir), ToolFile, File("extracted"))

(***************************************************************************)
(* Initial states                                                          *)
(***************************************************************************)
Configs ==
  { cfg \in [Categories -> BOOLEAN] :
      Cardinality({c \in Categories : cfg[c]}) <= MaxEnabled }
  \cup { ProgramConfig }

Platforms == { "win32", "linux" }

\* the archive directory file with the directories that hold it
VpkTree ==
  Put(Put(Put(EmptyTree, << Directory, "game" >>, Dir),
          << Directory, "game", "csgo" >>, Dir),
      VpkPath, File("pak01_dir.vpk"))

WithExecutable(tree, plat) == Put(tree, Executable(plat), File("Source2Viewer"))

\* entries the output directory may already hold
Pool ==
  { [name |-> "a_png.png",     entry |-> File("a_png.png")],
    [name |-> "a.png",         entry |-> File("a.png")],
    [name |-> "a_png_png.png", entry |-> File("a_png_png.png")],
    [name |-> "_png.png",      entry |-> File("_png.png")],
    [name |-> "b.txt",         entry |-> File("b.txt")],
    [name |-> "a.png",         entry |-> Dir],
    [name |-> "c_png.png",     entry |-> Dir] }

RECURSIVE PutAll(_, _)
PutAll(tree, S) ==
  IF S = {} THEN tree
  ELSE LET x == CHOOSE x \in S : TRUE
       IN  PutAll(Put(tree, Join(ToolDir, x.name), x.entry), S \ {x})

PoolTrees ==
  { PutAll(Put(WithExecutable(VpkTree, "linux"), ToolDir, Dir), S) :
      S \in { T \in SUBSET Pool :
                /\ Cardinality(T) <= MaxFiles
                /\ \A x, y \in T : x.name = y.name => x = y } }

InitRun ==
  /\ pc = "start"
  /\ log = << >>
  /\ loaded = FALSE
  /\ vpkFiles = 0
  /\ execCalls = << >>
  /\ promise = << >>
  /\ outcome = << >>
  /\ files = << >>
  /\ idx = 0
  /\ renamedCount = 0
  /\ renameCalls = << >>

\* any platform and configuration, each prerequisite file present or absent
Init ==
  /\ platform \in Platforms
  /\ config \in Configs
  /\ \E vpk, exe \in BOOLEAN :
       fs = LET t == IF vpk THEN VpkTree ELSE EmptyTree
            IN  IF exe THEN WithExecutable(t, platform) ELSE t
  /\ InitRun

\* every category switched off (the two metadata paths are still requested),
\* both prerequisite files present, and an output directory that already
\* holds some entries
InitRename ==
  /\ platform = "linux"
  /\ config = [c \in Categories |-> FALSE]
  /\ fs \in PoolTrees
  /\ InitRun

(***************************************************************************)
(* Promises of dumpFiles                                                   *)
(***************************************************************************)
\* the exec callback settles the promise of its path: it calls resolve()
\* whether or not the invocation failed
SettleRejectOnError(error) == IF error THEN "rejected" ELSE "resolved"

Settle(error) == "resolved"

\* Promise.all: rejected as soon as one promise is rejected, resolved once
\* every promise is resolved
PromiseRace(pr) ==
  IF \E i \in 1..Len(pr) : pr[i] = "rejected" THEN "rejected"
  ELSE IF \E i \in 1..Len(pr) : pr[i] = "resolved" THEN "resolved"
  ELSE "pending"

PromiseAll(pr) ==
  IF \E i \in 1..Len(pr) : pr[i] = "rejected" THEN "rejected"
  ELSE IF \A i \in 1..Len(pr) : pr[i] = "resolved" THEN "resolved"
  ELSE "pending"

(***************************************************************************)
(* Where the run goes after a catch block                                  *)
(***************************************************************************)
\* extractPNGs: the catch block logs the error and the function returns
AfterCatchContinue == "dump"

AfterCatch == "done"

\* renameFiles: the catch block logs the error and renameFiles returns
\* normally, so extractPNGs goes on to its completion message
AfterRenameCatchEndsRun == "done"

AfterRenameCatch == "complete"

\* renameFiles: renamedCount++ comes after the awaited rename, inside try
NextCountAlways(n, ok) == n + 1

NextCount(n, ok) == IF ok THEN n + 1 ELSE n

RECURSIVE LoggedAll(_, _)
LoggedAll(l, recs) ==
  IF recs = << >> THEN l ELSE LoggedAll(Logged(l, Head(recs)), Tail(recs))

(***************************************************************************)
(* extractPNGs                                                             *)
(***************************************************************************)
\* the two existsSync checks, up to "Loading VPK files..."
CheckPrerequisites ==
  /\ pc = "start"
  /\ IF ~ExistsSync(fs, VpkPath)
     THEN /\ log' = Logged(log, LinePath("error", "VPK file not found at:", VpkPath))
          /\ pc' = "done"
     ELSE IF ~ExistsSync(fs, Executable(platform))
     THEN /\ log' = LoggedAll(log,
                      << LinePath("error", "Source2Viewer not found at:",
                                  Executable(platform)),
                         Line("info", "Please ensure Source2Viewer-CLI.exe is in the data directory") >>)
          /\ pc' = "done"
     ELSE /\ log' = Logged(log, Line("info", "Loading VPK files..."))
          /\ pc' = "load"
  /\ UNCHANGED <<platform, config, fs, loaded, vpkFiles, execCalls, promise,
                 outcome, files, idx, renamedCount, renameCalls>>

\* loadVPK: the vpk library reads the archive directory or throws
LoadVPK ==
  /\ pc = "load"
  /\ \E ok \in BOOLEAN :
       IF ok
       THEN \E n \in 0..MaxEntries :
              /\ loaded' = TRUE
              /\ vpkFiles' = n
              /\ log' = LoggedAll(log,
                          << LineCount("info", "Loaded VPK with N files", n),
                             Line("info", "Starting PNG extraction...") >>)
              /\ pc' = "dump"
       ELSE /\ log' = Logged(log, Line("error", "Error during extraction:"))
            /\ pc' = AfterCatch
            /\ UNCHANGED <<loaded, vpkFiles>>
  /\ UNCHANGED <<platform, config, fs, execCalls, promise, outcome, files, idx,
                 renamedCount, renameCalls>>

(***************************************************************************)
(* dumpFiles                                                               *)
(***************************************************************************)
\* pathsToDump.map(...): one promise and one exec() per path, all created
\* before dumpFiles awaits
DumpFiles ==
  /\ pc = "dump"
  /\ LET paths == PathsToDump(config)
     IN  /\ log' = LoggedAll(
                     Logged(log, LineCount("info", "Extracting N directories/files...",
                                           Len(paths))),
                     [i \in 1..Len(paths) |-> LinePath("debug", "Dumping", paths[i])])
         /\ execCalls' = execCalls \o paths
         /\ promise' = [i \in 1..Len(paths) |-> "pending"]
         /\ outcome' = [i \in 1..Len(paths) |-> "running"]
  /\ pc' = "awaitDump"
  /\ UNCHANGED <<platform, config, fs, loaded, vpkFiles, files, idx,
                 renamedCount, renameCalls>>

\* the callback of exec for pathsToDump[i]: the invocation has ended
ExecCallback(i) ==
  /\ i \in 1..Len(promise)
  /\ promise[i] = "pending"
  /\ \E error, wrote \in BOOLEAN :
       /\ error => ~wrote
       /\ log' = IF error
                 THEN Logged(log, LinePath("warn", "Warning extracting", execCalls[i]))
                 ELSE log
       /\ fs' = IF wrote THEN Extracted(fs) ELSE fs
       /\ promise' = [promise EXCEPT ![i] = Settle(error)]
       /\ outcome' = [outcome EXCEPT ![i] = IF error THEN "failed" ELSE "ok"]
  /\ UNCHANGED <<platform, config, pc, loaded, vpkFiles, execCalls, files,
                 idx, renamedCount, renameCalls>>

\* await Promise.all(...) returns, or throws into the catch of dumpFiles
FanIn ==
  /\ pc = "awaitDump"
  /\ PromiseAll(promise) # "pending"
  /\ log' = IF PromiseAll(promise) = "rejected"
            THEN Logged(log, Line("error", "Error dumping files:"))
            ELSE log
  /\ pc' = "rename"
  /\ UNCHANGED <<platform, config, fs, loaded, vpkFiles, execCalls, promise,
                 outcome, files, idx, renamedCount, renameCalls>>

(***************************************************************************)
(* renameFiles                                                             *)
(***************************************************************************)
\* "Renaming ..." and the awaited readdir
RenameStart ==
  /\ pc = "rename"
  /\ \E ok \in BOOLEAN :
       IF ok
       THEN /\ files' \in ReaddirResults(fs)
            /\ idx' = 1
            /\ renamedCount' = 0
            /\ log' = Logged(log, Line("info", "Renaming _png.png files to .png..."))
            /\ pc' = "renaming"
       ELSE /\ log' = LoggedAll(log,
                        << Line("info", "Renaming _png.png files to .png..."),
                           Line("error", "Error renaming files:") >>)
            /\ pc' = AfterRenameCatch
            /\ UNCHANGED <<files, idx, renamedCount>>
  /\ UNCHANGED <<platform, config, fs, loaded, vpkFiles, execCalls, promise,
                 outcome, renameCalls>>

RenameProgressEvery == 100

\* one iteration of for (const file of files)
RenameStep ==
  /\ pc = "renaming"
  /\ idx <= Len(files)
  /\ idx' = idx + 1
  /\ LET file == files[idx]
     IN  IF ~IsCandidate(file)
         THEN UNCHANGED <<fs, log, renamedCount, renameCalls>>
         ELSE \E ok \in BOOLEAN :
                /\ ok => RenameMaySucceed(fs, OldPath(file), NewPath(file))
                /\ renameCalls' = Append(renameCalls,
                                         << OldPath(file), NewPath(file), ok >>)
                /\ renamedCount' = NextCount(renamedCount, ok)
                /\ IF ok
                   THEN /\ fs' = Renamed(fs, OldPath(file), NewPath(file))
                        /\ log' = IF renamedCount' % RenameProgressEvery = 0
                                  THEN Logged(log, LineCount("debug", "Renamed N files...",
                                                             renamedCount'))
                                  ELSE log
                   ELSE /\ fs' = fs
                        /\ log' = Logged(log, LinePath("warn", "Failed to rename",
                                                       file.name))
  /\ UNCHANGED <<platform, config, pc, loaded, vpkFiles, execCalls, promise,
                 outcome, files>>

\* the loop is over: "Successfully renamed N PNG files"
RenameEnd ==
  /\ pc = "renaming"
  /\ idx > Len(files)
  /\ log' = Logged(log, LineCount("info", "Successfully renamed N PNG files",
                                  renamedCount))
  /\ pc' = "complete"
  /\ UNCHANGED <<platform, config, fs, loaded, vpkFiles, execCalls, promise,
                 outcome, files, idx, renamedCount, renameCalls>>

\* back in extractPNGs after await this.renameFiles()
LogCompleted ==
  /\ pc = "complete"
  /\ log' = Logged(log, CompletedLine)
  /\ pc' = "done"
  /\ UNCHANGED <<platform, config, fs, loaded, vpkFiles, execCalls, promise,
                 outcome, files, idx, renamedCount, renameCalls>>

NumPaths == Len(CategoryOrder) + Len(neededFiles)

Step ==
  \/ CheckPrerequisites
  \/ LoadVPK
  \/ DumpFiles
  \/ FanIn
  \/ RenameStart
  \/ RenameStep
  \/ RenameEnd
  \/ LogCompleted

Next == Step \/ \E i \in 1..NumPaths : ExecCallback(i)

Spec == Init /\ [][Next]_vars

SpecRename == InitRename /\ [][Next]_vars

\* the program's own configuration with both prerequisite files present
InitFair ==
  /\ platform \in Platforms
  /\ config = ProgramConfig
  /\ fs = WithExecutable(VpkTree, platform)
  /\ InitRun

\* Node runs every continuation that is ready, and every launched invocation
\* is assumed to end: its exec callback eventually fires.
FairSpec ==
  /\ InitFair
  /\ [][Next]_vars
  /\ WF_vars(Step)
  /\ \A i \in 1..NumPaths : WF_vars(ExecCallback(i))

(***************************************************************************)
(* Vocabulary of the properties                                            *)
(***************************************************************************)
Launched == execCalls # << >>

RenameLine == Line("info", "Renaming _png.png files to .png...")

InLog(rec) == \E k \in 1..Len(log) : log[k] = rec

\* the paths the configuration requests, read off the tables
Requested(cfg) ==
  { neededDirectories[c] : c \in {d \in Categories : cfg[d]} }
    \cup { "scripts/items/items_game.txt", "resource/csgo_english.txt" }

AllPaths ==
  { neededDirectories[c] : c \in Categories } \cup Range(neededFiles)

Count(seq, x) == Cardinality({k \in 1..Len(seq) : seq[k] = x})

\* name with its last Len("_png.png") characters replaced by ".png"
Stripped(name) == SubSeq(name, 1, Len(name) - Len("_png.png")) \o ".png"

HasSuffix(name) ==
  /\ Len(name) >= Len("_png.png")
  /\ SubSeq(name, Len(name) - Len("_png.png") + 1, Len(name)) = "_png.png"

\* the snapshot entries the pass has to rename, among the first n
RECURSIVE CandidatePaths(_, _)
CandidatePaths(snapshot, n) ==
  IF n = 0 THEN << >>
  ELSE LET f == snapshot[n]
       IN  IF f.kind = "file" /\ HasSuffix(f.name)
           THEN Append(CandidatePaths(snapshot, n - 1), Append(f.parentPath, f.name))
           ELSE CandidatePaths(snapshot, n - 1)

Succeeded == {k \in 1..Len(renameCalls) : renameCalls[k][3]}
Failed == {k \in 1..Len(renameCalls) : ~renameCalls[k][3]}

\* the loop of the rename pass has run to its end
PassDone == pc \in {"complete", "done"} /\ idx = Len(files) + 1

(***************************************************************************)
(* C1: the rename pass, its directory listing included, starts only after  *)
(* the exec callback of every requested path has fired: whenever dumpFiles *)
(* has returned, a listing exists or a rename has been made, every         *)
(* requested path has been launched and no invocation is still running.    *)
(***************************************************************************)
C1_RenameAfterAllCallbacks ==
  (pc \in {"rename", "renaming", "complete"} \/ files # << >> \/ renameCalls # << >>)
    => /\ Len(promise) = Cardinality(Requested(config))
       /\ \A i \in 1..Len(promise) : outcome[i] # "running"

C1_Witness ==
  /\ pc = "renaming"
  /\ renameCalls # << >>
  /\ \E i, j \in 1..Len(outcome) : outcome[i] = "failed" /\ outcome[j] = "ok"

(***************************************************************************)
(* C2: a failed invocation is logged as a warning and settles its promise  *)
(* as resolved; every requested path is invoked whatever fails; no promise *)
(* is ever rejected and "Error dumping files:" is never logged; and a run  *)
(* that launched its invocations and ended has run the rename pass.        *)
(***************************************************************************)
C2_FailureTolerant ==
  /\ \A i \in 1..Len(outcome) :
       outcome[i] = "failed"
         => /\ InLog(LinePath("warn", "Warning extracting", execCalls[i]))
            /\ promise[i] = "resolved"
  /\ \A i \in 1..Len(promise) : promise[i] # "rejected"
  /\ ~InLog(Line("error", "Error dumping files:"))
  /\ Launched => Range(execCalls) = Requested(config)
  /\ (Launched /\ pc = "done") => InLog(RenameLine)

C2_Witness ==
  /\ pc = "done"
  /\ InLog(RenameLine)
  /\ \E i, j \in 1..Len(outcome) : outcome[i] = "failed" /\ outcome[j] = "ok"

(***************************************************************************)
(* C3: when the archive directory file or the executable is missing, the   *)
(* run logs an error and ends: the archive is never loaded, no invocation  *)
(* is launched, the rename pass does not run and the completion message is *)
(* not logged.                                                             *)
(***************************************************************************)
C3_MissingPrerequisiteAborts ==
  LET exe == IF platform = "win32"
             THEN << "data", "Source2Viewer-CLI.exe" >>
             ELSE << "data", "Source2Viewer-CLI" >>
      vpk == << "data", "game", "csgo", "pak01_dir.vpk" >>
  IN  (vpk \notin DOMAIN fs \/ exe \notin DOMAIN fs)
        => /\ pc \in {"start", "done"}
           /\ ~loaded
           /\ execCalls = << >>
           /\ files = << >> /\ renameCalls = << >>
           /\ ~InLog(RenameLine)
           /\ ~InLog(CompletedLine)
           /\ pc = "done" => Len(log) >= 1 /\ log[1].level = "error"

C3_Witness ==
  /\ pc = "done"
  /\ VpkPath \in DOMAIN fs
  /\ Executable(platform) \notin DOMAIN fs

(***************************************************************************)
(* C4: dumpFiles calls exec exactly once for each requested path (the      *)
(* prefix of every category whose flag is true and the two metadata file   *)
(* paths), never for another path, whatever the number of archive entries. *)
(***************************************************************************)
C4_OncePerRequestedPath ==
  /\ (pc \in {"awaitDump", "rename", "renaming", "complete"}) => Launched
  /\ Launched =>
       /\ \A p \in AllPaths \cup Range(execCalls) :
            Count(execCalls, p) = IF p \in Requested(config) THEN 1 ELSE 0
       /\ Len(execCalls) =
            Cardinality({c \in Categories : config[c]}) + Len(neededFiles)

C4_Witness ==
  /\ Launched
  /\ vpkFiles = MaxEntries
  /\ \E c, d \in Categories : config[c] /\ ~config[d]

\* the loop is at a listed regular file whose name ends in _png.png
AtCandidate ==
  /\ pc = "renaming"
  /\ idx <= Len(files)
  /\ files[idx].kind = "file"
  /\ HasSuffix(files[idx].name)

Source == Append(files[idx].parentPath, files[idx].name)
Target == Append(files[idx].parentPath, Stripped(files[idx].name))

(***************************************************************************)
(* C5: a collision is reported, not overwritten: when the loop reaches a   *)
(* file ending in _png.png whose target name already exists in the same    *)
(* directory, the step leaves the existing target as it was and logs a     *)
(* line about it.                                                          *)
(***************************************************************************)
C5_CollisionReportedNotOverwritten ==
  [][ (AtCandidate /\ Target \in DOMAIN fs /\ idx' = idx + 1)
        => /\ Target \in DOMAIN fs'
           /\ fs'[Target] = fs[Target]
           /\ Len(log') = Len(log) + 1 ]_vars

C7_LoadFailureAborts ==
  /\ ~loaded => /\ execCalls = << >> /\ promise = << >>
                /\ files = << >> /\ renameCalls = << >>
                /\ ~InLog(RenameLine)
                /\ ~InLog(CompletedLine)
                /\ pc \in {"start", "load", "done"}
  /\ (~loaded /\ pc = "done" /\ InLog(Line("info", "Loading VPK files...")))
       => log[Len(log)] = Line("error", "Error during extraction:")

C7_Witness ==
  /\ pc = "done"
  /\ ~loaded
  /\ VpkPath \in DOMAIN fs /\ Executable(platform) \in DOMAIN fs

(***************************************************************************)
(* C8: while an invocation has not ended the fan-in does not complete: the *)
(* run stays in dumpFiles, the rename pass has not started and completion  *)
(* is not logged; and when every launched invocation ends, the run goes on *)
(* to the rename pass and then logs completion.                            *)
(***************************************************************************)
C8_NoTimeoutThenProgress ==
  /\ []( (\E i \in 1..Len(outcome) : outcome[i] = "running")
           => /\ pc = "awaitDump"
              /\ ~InLog(RenameLine)
              /\ ~InLog(CompletedLine) )
  /\ (pc = "awaitDump")
       ~> (pc = "done" /\ InLog(RenameLine) /\ log[Len(log)] = CompletedLine)

C8_Witness ==
  /\ pc = "awaitDump"
  /\ Cardinality({i \in 1..Len(outcome) : outcome[i] = "running"}) = 1
  /\ Len(outcome) >= 3
  /\ ~ENABLED FanIn

(***************************************************************************)
(* C9: a run that found both prerequisite files and loaded the archive     *)
(* ends with "PNG extraction completed successfully!" as its last line,    *)
(* whatever the invocations, the directory listing and the renames did.    *)
(***************************************************************************)
C9_CompletionAlwaysLogged ==
  (pc = "done" /\ loaded)
    => /\ log[Len(log)] = CompletedLine
       /\ Count(log, CompletedLine) = 1

C9_Witness ==
  /\ pc = "done"
  /\ log[Len(log)] = CompletedLine
  /\ \A i \in 1..Len(outcome) : outcome[i] = "failed"
  /\ InLog(Line("error", "Error renaming files:"))

(***************************************************************************)
(* C10: the rename calls made so far are exactly the listed regular files  *)
(* ending in _png.png among the entries the loop has passed, once each and *)
(* in listing order, whether or not earlier calls failed; each failed call *)
(* is logged; renamedCount is the number of calls that succeeded, and it   *)
(* is the count the pass reports at its end.                               *)
(***************************************************************************)
C10_EveryCandidateOnceCountSucceeded ==
  (pc \in {"renaming", "complete", "done"} /\ idx >= 1)
    => /\ [k \in 1..Len(renameCalls) |-> renameCalls[k][1]]
            = CandidatePaths(files, idx - 1)
       /\ renamedCount = Cardinality(Succeeded)
       /\ Cardinality({k \in 1..Len(log) :
                         log[k].level = "warn" /\ log[k].msg = "Failed to rename"})
            = Cardinality(Failed)
       /\ pc \in {"complete", "done"}
            => /\ idx = Len(files) + 1
               /\ InLog(LineCount("info", "Successfully renamed N PNG files",
                                  Cardinality(Succeeded)))

C10_Witness ==
  /\ pc = "done"
  /\ \E j, k \in 1..Len(renameCalls) :
       j < k /\ ~renameCalls[j][3] /\ renameCalls[k][3]

====
